---- MODULE Spec2Model ----
(***************************************************************************)
(* Model of the Peloton cadence monitor: the CSC measurement decoder       *)
(* (ble_reader.py), the rolling window and block/allow decision            *)
(* (cadence_monitor.py) and the monitor loop that drives the UniFi         *)
(* firewall rule (unifi_controller.py).                                    *)
(*                                                                         *)
(* The program is one asyncio task.  A step of the model is the code that  *)
(* runs between two suspension points (await) of monitor_loop, or one      *)
(* delivery of a BLE notification to _notification_handler, which the      *)
(* event loop can only run while monitor_loop is suspended.                *)
(*                                                                         *)
(* CadenceMonitor is modelled as an object: main() calls initialize() and  *)
(* then monitor_loop(); a caller may also enter monitor_loop() on a        *)
(* monitor whose sensor is not connected (after a failed initialize() or   *)
(* after cleanup()), which is the case the loop's reconnect branch serves. *)
(* main_path records whether the run is one main() can produce.            *)
(***************************************************************************)
EXTENDS Integers, Sequences, FiniteSets, TLC

VARIABLES
    \* CadenceMonitor
    cadence_history,        \* deque(maxlen=ROLLING_AVERAGE_WINDOW)
    current_cadence,
    youtube_blocked,        \* "None" | "True" | "False"
    last_state_change,
    running,
    pc,                     \* where the caller / monitor_loop stands
    \* CadenceSensor
    connected,
    notifying,              \* the BleakClient delivers notifications to the handler
    cadence,
    last_crank_revolutions, \* NoneInt when unset
    last_crank_event_time,  \* NoneInt when unset
    \* environment
    now,                    \* time.time()
    link_up,                \* the BLE link to the sensor is alive / the sensor is reachable
    pedalling,              \* the rider is turning the cranks
    rule_enabled,           \* the remote firewall rule
    \* observations of the last step
    main_path,              \* the run so far is one main() produces
    forced,                 \* the disconnect branch of the iteration under way called enable_rule
    last_step,              \* what the last step of the monitor did (see Idle)
    decoded,                \* what the last _notification_handler call computed
    pushed                  \* samples appended since the window was last cleared

vars == <<cadence_history, current_cadence, youtube_blocked, last_state_change,
          running, pc, connected, notifying, cadence, last_crank_revolutions,
          last_crank_event_time, now, link_up, pedalling, rule_enabled,
          main_path, forced, last_step, decoded, pushed>>

window_vars  == <<cadence_history, current_cadence>>
obs_vars == <<decoded, pushed>>
decoder_vars == <<cadence, last_crank_revolutions, last_crank_event_time>>
decision_vars == <<youtube_blocked, last_state_change, rule_enabled>>
env_vars == <<link_up, pedalling>>

----------------------------------------------------------------------------
(* Configuration (config.py defaults) *)

CADENCE_THRESHOLD == 60
GRACE_PERIOD_SECONDS == 3
ROLLING_AVERAGE_WINDOW == 5

(* Bounds of the model *)

MaxTime == 6        \* the clock runs from StartTime to MaxTime
MaxPushed == 7      \* samples appended in a run of the window specification
MaxEmitted == 2     \* samples emitted in a run of the decoder specification

NoneInt == 0 - 1
StartTime == GRACE_PERIOD_SECONDS

----------------------------------------------------------------------------
(* Python values *)

PyBool(b) == IF b THEN "True" ELSE "False"

RECURSIVE sum(_)
sum(s) == IF s = <<>> THEN 0 ELSE Head(s) + sum(Tail(s))


\* deque_append without the eviction of maxlen
deque_append_unbounded(d, x, n) == Append(d, x)

\* deque(maxlen=n).append(x)
deque_append(d, x, n) ==
    IF n = 0 THEN <<>>
    ELSE IF Len(d) >= n THEN Append(Tail(d), x)
    ELSE Append(d, x)

----------------------------------------------------------------------------
(* Rolling window and decision (cadence_monitor.py) *)

\* The average as the fraction <<numerator, denominator>>; 0 for the empty window.
get_average_cadence(h) ==
    IF h = <<>> THEN <<0, 1>> ELSE <<sum(h), Len(h)>>


\* FracLess with <= for <
FracLessOrEqual(avg, k) == avg[1] <= k * avg[2]

\* avg < k for the fraction avg
FracLess(avg, k) == avg[1] < k * avg[2]


\* should_block_youtube without the warm-up test
should_block_no_warmup(h, threshold, window) ==
    FracLess(get_average_cadence(h), threshold)

should_block_youtube(h, threshold, window) ==
    LET avg_cadence == get_average_cadence(h)
    IN  IF Len(h) < window THEN TRUE
        ELSE FracLess(avg_cadence, threshold)


\* can_change_state that only asks for a later time
can_change_state_later(t, last_change) ==
    t - last_change >= 0

can_change_state(t, last_change) ==
    t - last_change >= GRACE_PERIOD_SECONDS

\* _cadence_update(cadence): the new <<current_cadence, cadence_history>>
cadence_update(h, sample) ==
    <<sample, deque_append(h, sample, ROLLING_AVERAGE_WINDOW)>>

----------------------------------------------------------------------------
(* CSC measurement decoder (ble_reader.py) *)

\* from_bytes_le reading the two bytes most significant first
from_bytes_be(data, i) == 256 * data[i] + data[i + 1]

\* int.from_bytes(data[i:i+2], byteorder='little', signed=False), data 1-indexed here
from_bytes_le(data, i) == data[i] + 256 * data[i + 1]

\* the frame a sensor sends for flags, counter and event time
Frame(flags, c, t) == <<flags, c % 256, c \div 256, t % 256, t \div 256>>

\* crank_data_present testing bit 0 (wheel data) of the flags
wheel_data_present(flags) == flags % 2 = 1

\* flags & 0x02
crank_data_present(flags) == (flags \div 2) % 2 = 1


\* rev_diff_of without the rollover correction
rev_diff_raw(crank_revolutions, last_revolutions) ==
    crank_revolutions - last_revolutions

rev_diff_of(crank_revolutions, last_revolutions) ==
    LET d == crank_revolutions - last_revolutions
    IN  IF d < 0 THEN d + 65536 ELSE d


\* time_diff_of without the rollover correction
time_diff_raw(crank_event_time, last_event_time) ==
    crank_event_time - last_event_time

time_diff_of(crank_event_time, last_event_time) ==
    LET d == crank_event_time - last_event_time
    IN  IF d < 0 THEN d + 65536 ELSE d

\* floor(rev * 61440 / td) without leaving 32 bits
ExactRpm(rev, td) ==
    LET a  == (rev % td) * 1024
        q1 == a \div td
        r1 == a % td
    IN  61440 * (rev \div td) + 60 * q1 + (60 * r1) \div td

\* The inputs, among those the frame sets below produce, on which the
\* double-precision quotient rev / ((td / 1024.0) / 60.0) falls just below the
\* exact integer quotient, so that int() yields one less.
FloatShort == { <<23, 23>>, <<65513, 65513>> }

\* int(rev_diff / ((time_diff / 1024.0) / 60.0))
rpm_of(rev, td) ==
    IF <<rev, td>> \in FloatShort THEN ExactRpm(rev, td) - 1 ELSE ExactRpm(rev, td)

\* One call of _notification_handler on data, with the stored pair lc, lt and
\* the stored cadence cad: what it stores, and the sample it hands to the
\* callback (emit).
notification_handler(data, lc, lt, cad, has_callback) ==
    LET dropped == [lc |-> lc, lt |-> lt, cadence |-> cad, emit |-> FALSE, sample |-> NoneInt,
                    parsed |-> FALSE, computed |-> FALSE,
                    c |-> NoneInt, t |-> NoneInt, rev_diff |-> NoneInt, time_diff |-> NoneInt]
    IN  IF Len(data) < 1 THEN dropped
        ELSE IF ~crank_data_present(data[1]) THEN dropped
        ELSE IF Len(data) < 5 THEN dropped
        ELSE
          LET crank_revolutions == from_bytes_le(data, 2)
              crank_event_time  == from_bytes_le(data, 4)
              have_prev == lc # NoneInt /\ lt # NoneInt
              rd == IF have_prev THEN rev_diff_of(crank_revolutions, lc) ELSE NoneInt
              td == IF have_prev THEN time_diff_of(crank_event_time, lt) ELSE NoneInt
              calc == have_prev /\ td > 0
              rpm == IF calc THEN rpm_of(rd, td) ELSE NoneInt
          IN  [lc |-> crank_revolutions, lt |-> crank_event_time,
               cadence |-> IF calc THEN rpm ELSE cad,
               emit |-> calc /\ has_callback,
               sample |-> IF calc /\ has_callback THEN rpm ELSE NoneInt,
               parsed |-> TRUE, computed |-> have_prev,
               c |-> crank_revolutions, t |-> crank_event_time,
               rev_diff |-> rd, time_diff |-> td]

----------------------------------------------------------------------------
(* Observations *)

\* op: "idle" | "update" (update_youtube_block ran) | "lost" (the disconnect
\* branch ran); before: youtube_blocked before the step; desired:
\* should_block_youtube's result in that step; in_grace: the step ran less than
\* GRACE_PERIOD_SECONDS after last_state_change; gate: the gate call made
\* ("none" | "enable" | "disable"); ok: its result; retry: the step repeats
\* what failed just before it (an update right after an update whose gate
\* call failed; a disconnect branch right after a failed sensor.connect());
\* forced: the update ends an iteration whose disconnect branch called
\* enable_rule.
\* calls: the calls the step made, in order: the gate calls of an update or
\* of the disconnect branch; after initialize() (op "initialize") its gate and
\* sensor calls, failed_at being the step of initialize that failed ("none"
\* when it returned True).
Idle == [op |-> "idle", before |-> "None", desired |-> "None", in_grace |-> FALSE,
         gate |-> "none", ok |-> FALSE, retry |-> FALSE, forced |-> FALSE,
         failed_at |-> "none", calls |-> <<>>]

\* what a step other than update and the disconnect branch did:
\* "connect_ok" | "connect_failed" | "connect_raised" (how sensor.connect()
\* ended in the loop), "shutdown" (the shutdown signal)
Did(op) == [Idle EXCEPT !.op = op]

NotDecoded == [parsed |-> FALSE, computed |-> FALSE, emit |-> FALSE, sample |-> NoneInt,
               c |-> NoneInt, t |-> NoneInt, prev_c |-> NoneInt, prev_t |-> NoneInt,
               rev_diff |-> NoneInt, time_diff |-> NoneInt, frame |-> <<>>]

----------------------------------------------------------------------------
(* Gate service (unifi_controller.py): the remote rule after a call *)

\* _update_rule(rule_id, enabled) that returned ok
update_rule(rule, enabled, ok) == IF ok THEN enabled ELSE rule

\* get_rule_status that reports a disabled rule as None
get_rule_status_truthy(rule) == IF rule THEN "True" ELSE "None"

\* get_rule_status() when the rule was found: rule.get('enabled', False)
get_rule_status(rule) == PyBool(rule)

----------------------------------------------------------------------------
(* update_youtube_block at time t, the gate answering ok if it is called *)

\* gate_call with the two branches exchanged
gate_call_swapped(should_block) == IF should_block THEN "disable" ELSE "enable"

\* the gate call of update_youtube_block: enable_rule() if should_block,
\* else disable_rule()
gate_call(should_block) == IF should_block THEN "enable" ELSE "disable"


\* update_youtube_block that commits the new state whatever the gate answered
update_youtube_block_unchecked(h, blocked, last_change, rule, t, ok) ==
    LET should_block == should_block_youtube(h, CADENCE_THRESHOLD, ROLLING_AVERAGE_WINDOW)
        obs == [Idle EXCEPT !.op = "update", !.before = blocked,
                            !.desired = PyBool(should_block),
                            !.in_grace = (t - last_change < GRACE_PERIOD_SECONDS)]
    IN  IF PyBool(should_block) = blocked
        THEN [blocked |-> blocked, last_change |-> last_change, rule |-> rule, obs |-> obs]
        ELSE IF ~can_change_state(t, last_change)
        THEN [blocked |-> blocked, last_change |-> last_change, rule |-> rule, obs |-> obs]
        ELSE [blocked |-> PyBool(should_block),
              last_change |-> t,
              rule |-> update_rule(rule, gate_call(should_block) = "enable", ok),
              obs |-> [obs EXCEPT !.gate = gate_call(should_block),
                                  !.calls = <<gate_call(should_block)>>,
                                  !.ok = ok]]

update_youtube_block(h, blocked, last_change, rule, t, ok) ==
    LET should_block == should_block_youtube(h, CADENCE_THRESHOLD, ROLLING_AVERAGE_WINDOW)
        obs == [Idle EXCEPT !.op = "update", !.before = blocked,
                            !.desired = PyBool(should_block),
                            !.in_grace = (t - last_change < GRACE_PERIOD_SECONDS)]
    IN  IF PyBool(should_block) = blocked
        THEN [blocked |-> blocked, last_change |-> last_change, rule |-> rule, obs |-> obs]
        ELSE IF ~can_change_state(t, last_change)
        THEN [blocked |-> blocked, last_change |-> last_change, rule |-> rule, obs |-> obs]
        ELSE [blocked |-> IF ok THEN PyBool(should_block) ELSE blocked,
              last_change |-> IF ok THEN t ELSE last_change,
              rule |-> update_rule(rule, gate_call(should_block) = "enable", ok),
              obs |-> [obs EXCEPT !.gate = gate_call(should_block),
                                  !.calls = <<gate_call(should_block)>>,
                                  !.ok = ok]]


\* block_on_disconnect that respects the grace period
block_on_disconnect_graced(blocked, last_change, rule, t, ok) ==
    LET obs == [Idle EXCEPT !.op = "lost", !.before = blocked,
                            !.in_grace = (t - last_change < GRACE_PERIOD_SECONDS)]
    IN  IF blocked # "True" /\ can_change_state(t, last_change)
        THEN [blocked |-> IF ok THEN "True" ELSE blocked,
              last_change |-> IF ok THEN t ELSE last_change,
              rule |-> update_rule(rule, TRUE, ok),
              obs |-> [obs EXCEPT !.gate = "enable", !.calls = <<"enable">>, !.ok = ok]]
        ELSE [blocked |-> blocked, last_change |-> last_change, rule |-> rule, obs |-> obs]

\* block_on_disconnect that leaves last_state_change as it was
block_on_disconnect_unstamped(blocked, last_change, rule, t, ok) ==
    LET obs == [Idle EXCEPT !.op = "lost", !.before = blocked,
                            !.in_grace = (t - last_change < GRACE_PERIOD_SECONDS)]
    IN  IF blocked # "True"
        THEN [blocked |-> IF ok THEN "True" ELSE blocked,
              last_change |-> last_change,
              rule |-> update_rule(rule, TRUE, ok),
              obs |-> [obs EXCEPT !.gate = "enable", !.calls = <<"enable">>, !.ok = ok]]
        ELSE [blocked |-> blocked, last_change |-> last_change, rule |-> rule, obs |-> obs]

\* the disconnect branch of monitor_loop up to the reconnection attempt
block_on_disconnect(blocked, last_change, rule, t, ok) ==
    LET obs == [Idle EXCEPT !.op = "lost", !.before = blocked,
                            !.in_grace = (t - last_change < GRACE_PERIOD_SECONDS)]
    IN  IF blocked # "True"
        THEN [blocked |-> IF ok THEN "True" ELSE blocked,
              last_change |-> IF ok THEN t ELSE last_change,
              rule |-> update_rule(rule, TRUE, ok),
              obs |-> [obs EXCEPT !.gate = "enable", !.calls = <<"enable">>, !.ok = ok]]
        ELSE [blocked |-> blocked, last_change |-> last_change, rule |-> rule, obs |-> obs]

----------------------------------------------------------------------------
(* Inputs *)

\* Suspended with the position between the update's reads and its commit
SuspendedOrDeciding == {"top", "connecting", "subscribing", "deciding"}

\* where monitor_loop stands while it is suspended at an await: sleep(1) or
\* sleep(10) ("top"), sensor.connect() and sensor.start_notifications()
Suspended == {"top", "connecting", "subscribing"}
LoopEntry == {"init_failed", "init_ok", "stopped"}

\* frames of the monitor specification: two counters and two event times half
\* the 16-bit range apart, a short frame, a frame without crank data, an empty one
LoopFrames ==
    { Frame(2, c, t) : c \in {0, 32768}, t \in {0, 32768} } \cup { <<2, 0, 0>>, <<1, 0, 0, 0, 0>>, <<>> }

\* frames of the decoder specification: counters and event times around the
\* 16-bit rollover
DecoderFrames ==
    { Frame(2, c, t) : c \in {0, 2, 65534}, t \in {0, 10, 65530} }
      \cup { Frame(2, 23, 23), Frame(3, 2, 10), <<2, 0, 0>>, <<1, 0, 0, 0, 0>>, <<>> }

\* samples of the window specification
WindowSamples == {0, 50, 60, 70}

----------------------------------------------------------------------------
(* Initial states *)

\* after CadenceMonitor() and CadenceSensor()
Init ==
    /\ cadence_history = <<>>
    /\ current_cadence = 0
    /\ youtube_blocked = "None"
    /\ last_state_change = 0
    /\ running = FALSE
    /\ pc = "new"
    /\ connected = FALSE
    /\ notifying = FALSE
    /\ cadence = 0
    /\ last_crank_revolutions = NoneInt
    /\ last_crank_event_time = NoneInt
    /\ now = StartTime
    /\ link_up \in BOOLEAN
    /\ pedalling \in BOOLEAN
    /\ rule_enabled \in BOOLEAN
    /\ main_path = TRUE
    /\ forced = FALSE
    /\ last_step = Idle
    /\ decoded = NotDecoded
    /\ pushed = <<>>

----------------------------------------------------------------------------
(* Sensor notifications *)

\* The frame repeats the stored event time or carries no crank data: all a
\* sensor sends while the cranks stand still.
StillFrame(data) ==
    IF Len(data) < 5 THEN TRUE
    ELSE IF ~crank_data_present(data[1]) THEN TRUE
    ELSE last_crank_event_time \in {NoneInt, from_bytes_le(data, 4)}

\* _notification_handler(sender, data); the callback is _cadence_update, which
\* start_notifications stored before it registered the handler
HandlerCall(data) ==
    LET r == notification_handler(data, last_crank_revolutions, last_crank_event_time,
                                  cadence, TRUE)
        u == cadence_update(cadence_history, r.sample)
    IN  /\ last_crank_revolutions' = r.lc
        /\ last_crank_event_time' = r.lt
        /\ cadence' = r.cadence
        /\ current_cadence' = IF r.emit THEN u[1] ELSE current_cadence
        /\ cadence_history' = IF r.emit THEN u[2] ELSE cadence_history
        /\ last_step' = Idle
        /\ UNCHANGED <<decision_vars, env_vars, running, pc, connected, notifying, now, main_path, forced>>

\* a notification reaches the handler while monitor_loop is suspended
NotificationStep(data) ==
    /\ notifying /\ link_up
    /\ pc \in Suspended
    /\ IF pedalling THEN TRUE ELSE StillFrame(data)
    /\ HandlerCall(data)

\* what a call of the handler on data computes, for the decoder specification
Observed(data) ==
    LET r == notification_handler(data, last_crank_revolutions, last_crank_event_time,
                                  cadence, TRUE)
    IN  [parsed |-> r.parsed, computed |-> r.computed, emit |-> r.emit,
         sample |-> r.sample, c |-> r.c, t |-> r.t,
         prev_c |-> last_crank_revolutions, prev_t |-> last_crank_event_time,
         rev_diff |-> r.rev_diff, time_diff |-> r.time_diff, frame |-> data]

Notification ==
    \E data \in LoopFrames : NotificationStep(data) /\ UNCHANGED obs_vars

----------------------------------------------------------------------------
(* Startup *)

\* initialize(): failed_at names the step that fails, "none" when all succeed.
InitSteps == {"validate", "verify_access", "rule_id", "rule_status", "connect",
              "start_notifications", "none"}

\* the gate and sensor calls of initialize(), in the order it makes them
InitCalls == <<"verify_access", "initialize_rule_id", "get_rule_status", "connect",
               "start_notifications">>


\* calls_before with Config.validate() run after the gate was contacted
calls_before_late_validate(failed_at) ==
    SubSeq(InitCalls, 1,
           CASE failed_at = "validate" -> 1
             [] failed_at = "verify_access" -> 1
             [] failed_at = "rule_id" -> 2
             [] failed_at = "rule_status" -> 3
             [] failed_at = "connect" -> 4
             [] OTHER -> 5)

\* the calls initialize() has made when it returns, failed_at being the step
\* that failed: those before the failing step, and the failing call itself
calls_before(failed_at) ==
    SubSeq(InitCalls, 1,
           CASE failed_at = "validate" -> 0
             [] failed_at = "verify_access" -> 1
             [] failed_at = "rule_id" -> 2
             [] failed_at = "rule_status" -> 3
             [] failed_at = "connect" -> 4
             [] OTHER -> 5)

Initialize(failed_at) ==
    LET got_status == failed_at \in {"rule_status", "connect", "start_notifications", "none"}
        got_sensor == failed_at \in {"start_notifications", "none"}
    IN  /\ pc = "new"
        /\ got_sensor => link_up
        /\ youtube_blocked' = IF got_status /\ failed_at # "rule_status"
                              THEN get_rule_status(rule_enabled) ELSE "None"
        /\ connected' = got_sensor
        /\ notifying' = (failed_at = "none")
        /\ pc' = IF failed_at = "none" THEN "init_ok" ELSE "init_failed"
        /\ last_step' = [Idle EXCEPT !.op = "initialize", !.failed_at = failed_at,
                                     !.calls = calls_before(failed_at)]
        /\ UNCHANGED <<window_vars, decoder_vars, last_state_change, rule_enabled, env_vars,
                       running, now, main_path, forced, obs_vars>>

\* main() returns: 1 when initialize() returned False, 0 when monitor_loop()
\* has ended (op "exit"; what the step before did stays in last_step)
MainReturn ==
    /\ main_path
    /\ pc \in {"init_failed", "stopped"}
    /\ pc' = IF pc = "init_failed" THEN "exit_1" ELSE "exit_0"
    /\ last_step' = [last_step EXCEPT !.op = "exit"]
    /\ UNCHANGED <<window_vars, decoder_vars, decision_vars, env_vars, running, connected,
                   notifying, now, main_path, forced, obs_vars>>

\* monitor_loop() is entered: main() does so after initialize() returned True.
StartLoop ==
    /\ pc \in LoopEntry
    /\ running' = TRUE
    /\ pc' = "enter"
    /\ main_path' = (main_path /\ pc = "init_ok")
    /\ last_step' = Idle
    /\ UNCHANGED <<window_vars, decoder_vars, decision_vars, env_vars, connected, notifying,
                   now, forced, obs_vars>>

----------------------------------------------------------------------------
(* monitor_loop *)

AtLoopTop == running /\ pc \in {"enter", "top"}

\* an iteration that finds the sensor connected: update, then sleep(1)
IterConnected(ok) ==
    LET r == update_youtube_block(cadence_history, youtube_blocked, last_state_change,
                                  rule_enabled, now, ok)
    IN  /\ AtLoopTop
        /\ connected
        /\ youtube_blocked' = r.blocked
        /\ last_state_change' = r.last_change
        /\ rule_enabled' = r.rule
        /\ last_step' = [r.obs EXCEPT !.retry = ( /\ last_step.op = "update"
                                                  /\ last_step.gate # "none"
                                                  /\ ~last_step.ok )]
        /\ pc' = "top"
        /\ UNCHANGED <<window_vars, decoder_vars, env_vars, running, connected, notifying,
                       now, main_path, forced, obs_vars>>

\* IterLost without cadence_history.clear() and current_cadence = 0
IterLost_keeps_window(ok) ==
    LET r == block_on_disconnect(youtube_blocked, last_state_change, rule_enabled, now, ok)
    IN  /\ AtLoopTop
        /\ ~connected
        /\ youtube_blocked' = r.blocked
        /\ last_state_change' = r.last_change
        /\ rule_enabled' = r.rule
        /\ last_step' = [r.obs EXCEPT !.retry = (last_step.op = "connect_failed")]
        /\ forced' = (r.obs.gate = "enable")
        /\ UNCHANGED window_vars
        /\ pc' = "connecting"
        /\ UNCHANGED <<decoder_vars, env_vars, running, connected, notifying, now, main_path, obs_vars>>

\* an iteration that finds the sensor not connected, up to `await sensor.connect()`
IterLost(ok) ==
    LET r == block_on_disconnect(youtube_blocked, last_state_change, rule_enabled, now, ok)
    IN  /\ AtLoopTop
        /\ ~connected
        /\ youtube_blocked' = r.blocked
        /\ last_state_change' = r.last_change
        /\ rule_enabled' = r.rule
        /\ last_step' = [r.obs EXCEPT !.retry = (last_step.op = "connect_failed")]
        /\ forced' = (r.obs.gate = "enable")
        /\ cadence_history' = <<>>
        /\ current_cadence' = 0
        /\ pc' = "connecting"
        /\ UNCHANGED <<decoder_vars, env_vars, running, connected, notifying, now, main_path, obs_vars>>

\* cleanup(): running = False and the sensor is disconnected
Cleanup ==
    /\ running' = FALSE
    /\ connected' = FALSE
    /\ notifying' = FALSE
    /\ forced' = FALSE
    /\ pc' = "stopped"

\* ConnectDone without the `continue` after a failed attempt: the iteration
\* goes on to start_notifications and the update
ConnectDone_no_continue(result) ==
    /\ running /\ pc = "connecting"
    /\ result = "ok" => link_up
    /\ CASE result = "ok" ->
              /\ connected' = TRUE
              /\ pc' = "subscribing"
              /\ UNCHANGED <<running, notifying, forced>>
         [] result = "failed" ->
              /\ connected' = FALSE
              /\ pc' = "subscribing"
              /\ UNCHANGED <<running, notifying, forced>>
         [] OTHER -> Cleanup
    /\ last_step' = Did(CASE result = "ok" -> "connect_ok"
                           [] result = "failed" -> "connect_failed"
                           [] OTHER -> "connect_raised")
    /\ UNCHANGED <<window_vars, decoder_vars, decision_vars, env_vars, now, main_path, obs_vars>>

\* sensor.connect() returns: "ok", "failed" (no device found, or the connection
\* attempt raised inside connect), or "raised" (the scan raised)
ConnectDone(result) ==
    /\ running /\ pc = "connecting"
    /\ result = "ok" => link_up
    /\ CASE result = "ok" ->
              /\ connected' = TRUE
              /\ pc' = "subscribing"
              /\ UNCHANGED <<running, notifying, forced>>
         [] result = "failed" ->
              /\ connected' = FALSE
              /\ pc' = "top"
              /\ forced' = FALSE
              /\ UNCHANGED <<running, notifying>>
         [] OTHER -> Cleanup
    /\ last_step' = Did(CASE result = "ok" -> "connect_ok"
                           [] result = "failed" -> "connect_failed"
                           [] OTHER -> "connect_raised")
    /\ UNCHANGED <<window_vars, decoder_vars, decision_vars, env_vars, now, main_path, obs_vars>>

\* start_notifications() returns (its result is not looked at), then the
\* iteration goes on to update_youtube_block and sleep(1)
SubscribeDone(subscribed, ok) ==
    LET r == update_youtube_block(cadence_history, youtube_blocked, last_state_change,
                                  rule_enabled, now, ok)
    IN  /\ running /\ pc = "subscribing"
        /\ subscribed => link_up
        /\ notifying' = subscribed
        /\ youtube_blocked' = r.blocked
        /\ last_state_change' = r.last_change
        /\ rule_enabled' = r.rule
        /\ last_step' = [r.obs EXCEPT !.forced = forced]
        /\ forced' = FALSE
        /\ pc' = "top"
        /\ UNCHANGED <<window_vars, decoder_vars, env_vars, running, connected, now, main_path, obs_vars>>

\* the shutdown signal reaches the suspended loop: finally: cleanup()
Shutdown ==
    /\ running /\ pc \in Suspended
    /\ Cleanup
    /\ last_step' = Did("shutdown")
    /\ UNCHANGED <<window_vars, decoder_vars, decision_vars, env_vars, now, main_path, obs_vars>>

----------------------------------------------------------------------------
(* Environment *)

Tick ==
    /\ now < MaxTime
    /\ now' = now + 1
    /\ last_step' = Idle
    /\ UNCHANGED <<window_vars, decoder_vars, decision_vars, env_vars, running, pc,
                   connected, notifying, main_path, forced, obs_vars>>

\* the BLE link drops: notifications stop; nothing in the program is told
LinkDown ==
    /\ link_up
    /\ link_up' = FALSE
    /\ notifying' = FALSE
    /\ last_step' = Idle
    /\ UNCHANGED <<window_vars, decoder_vars, decision_vars, pedalling, running, pc,
                   connected, now, main_path, forced, obs_vars>>

LinkUp ==
    /\ ~link_up
    /\ link_up' = TRUE
    /\ last_step' = Idle
    /\ UNCHANGED <<window_vars, decoder_vars, decision_vars, pedalling, running, pc,
                   connected, notifying, now, main_path, forced, obs_vars>>

PedalChange ==
    /\ pedalling' = ~pedalling
    /\ last_step' = Idle
    /\ UNCHANGED <<window_vars, decoder_vars, decision_vars, link_up, running, pc,
                   connected, notifying, now, main_path, forced, obs_vars>>

----------------------------------------------------------------------------
(* The program *)

Next ==
    \/ \E failed_at \in InitSteps : Initialize(failed_at)
    \/ MainReturn
    \/ StartLoop
    \/ \E ok \in BOOLEAN : IterConnected(ok)
    \/ \E ok \in BOOLEAN : IterLost(ok)
    \/ \E result \in {"ok", "failed", "raised"} : ConnectDone(result)
    \/ \E subscribed, ok \in BOOLEAN : SubscribeDone(subscribed, ok)
    \/ Shutdown
    \/ Notification
    \/ Tick
    \/ LinkDown
    \/ LinkUp
    \/ PedalChange

Spec == Init /\ [][Next]_vars

TypeOK ==
    /\ youtube_blocked \in {"None", "True", "False"}
    /\ Len(cadence_history) <= ROLLING_AVERAGE_WINDOW
    /\ now \in StartTime..MaxTime

----------------------------------------------------------------------------
(* The rolling window alone: _cadence_update and the clear of the disconnect *)
(* branch applied to a constructed monitor, every sample kept in pushed      *)

InitWindow == Init /\ link_up /\ pedalling /\ rule_enabled

WindowPush(sample) ==
    LET u == cadence_update(cadence_history, sample)
    IN  /\ Len(pushed) < MaxPushed
        /\ current_cadence' = u[1]
        /\ cadence_history' = u[2]
        /\ pushed' = Append(pushed, sample)
        /\ UNCHANGED <<decoder_vars, decision_vars, env_vars, running, pc, connected,
                       notifying, now, main_path, forced, last_step, decoded>>

WindowClear ==
    /\ cadence_history' = <<>>
    /\ current_cadence' = 0
    /\ pushed' = <<>>
    /\ UNCHANGED <<decoder_vars, decision_vars, env_vars, running, pc, connected,
                   notifying, now, main_path, forced, last_step, decoded>>

NextWindow ==
    \/ \E sample \in WindowSamples : WindowPush(sample)
    \/ WindowClear

SpecWindow == InitWindow /\ [][NextWindow]_vars

----------------------------------------------------------------------------
(* The decoder alone: the handler applied to frames around the rollover, what *)
(* each call computed kept in decoded, the samples it emitted in pushed       *)

InitDecoder == Init /\ link_up /\ pedalling /\ rule_enabled

DecoderNotification(data) ==
    LET o == Observed(data)
    IN  /\ o.emit => Len(pushed) < MaxEmitted
        /\ HandlerCall(data)
        /\ decoded' = o
        /\ pushed' = IF o.emit THEN Append(pushed, o.sample) ELSE pushed

NextDecoder == \E data \in DecoderFrames : DecoderNotification(data)

SpecDecoder == InitDecoder /\ [][NextDecoder]_vars

----------------------------------------------------------------------------
(* Scheduling: the event loop resumes monitor_loop after every await, time  *)
(* passes, and a gate call that keeps being made eventually succeeds        *)

LoopStep ==
    \/ \E ok \in BOOLEAN : IterConnected(ok)
    \/ \E ok \in BOOLEAN : IterLost(ok)
    \/ \E result \in {"ok", "failed"} : ConnectDone(result)
    \/ \E subscribed, ok \in BOOLEAN : SubscribeDone(subscribed, ok)

FairSpec ==
    /\ Spec
    /\ WF_vars(LoopStep)
    /\ WF_vars(Tick)
    /\ SF_vars(IterConnected(TRUE))
    /\ SF_vars(IterLost(TRUE))


\* A gate service that, called again and again by the update, succeeds at
\* some call, under a loop that keeps iterating
FairGateSpec ==
    /\ Spec
    /\ SF_vars(IterConnected(TRUE))

\* The loop keeps taking steps, and a sensor that can be connected to again
\* and again is connected to at some attempt
FairConnectSpec ==
    /\ Spec
    /\ WF_vars(LoopStep)
    /\ SF_vars(ConnectDone("ok"))

\* The program with a gate service whose calls all succeed
LoopStepGateOk ==
    \/ IterConnected(TRUE)
    \/ IterLost(TRUE)
    \/ \E result \in {"ok", "failed"} : ConnectDone(result)
    \/ \E subscribed \in BOOLEAN : SubscribeDone(subscribed, TRUE)

NextGateOk ==
    \/ \E failed_at \in InitSteps : Initialize(failed_at)
    \/ MainReturn
    \/ StartLoop
    \/ LoopStepGateOk
    \/ ConnectDone("raised")
    \/ Shutdown
    \/ Notification
    \/ Tick
    \/ LinkDown
    \/ LinkUp
    \/ PedalChange

GateOkSpec ==
    /\ Init /\ [][NextGateOk]_vars
    /\ WF_vars(LoopStepGateOk)
    /\ WF_vars(Tick)

----------------------------------------------------------------------------
(* Properties *)

Thresholds == {0, 50, CADENCE_THRESHOLD, 70, 100}

\* C1: while the window holds fewer than ROLLING_AVERAGE_WINDOW samples (the
\* empty window included), should_block_youtube returns True whatever the
\* window holds and whatever the threshold is.
C1_BlockedWhileWarmingUp ==
    Len(cadence_history) < ROLLING_AVERAGE_WINDOW =>
        \A threshold \in Thresholds :
            should_block_youtube(cadence_history, threshold, ROLLING_AVERAGE_WINDOW) = TRUE

\* a window one sample short of full whose average is above the threshold
C1_Witness ==
    /\ cadence_history = <<70, 70, 70, 70>>
    /\ should_block_youtube(cadence_history, CADENCE_THRESHOLD, ROLLING_AVERAGE_WINDOW)

\* the last n elements of s
LastN(s, n) == IF Len(s) <= n THEN s ELSE SubSeq(s, Len(s) - n + 1, Len(s))

\* how far the samples of h lie above the threshold, summed
Surplus(h, threshold) == sum([i \in 1..Len(h) |-> h[i] - threshold])

\* C7: with a full window should_block_youtube returns True exactly when the
\* mean of the window is strictly below CADENCE_THRESHOLD; a mean equal to the
\* threshold gives False.  With threshold 60 and five samples,
\* [70,70,70,70,50] gives False and [50,50,50,50,50] gives True.
C7_FullWindowBlocksBelowThreshold ==
    LET blocks == should_block_youtube(cadence_history, CADENCE_THRESHOLD, ROLLING_AVERAGE_WINDOW)
    IN  Len(cadence_history) = ROLLING_AVERAGE_WINDOW =>
          /\ blocks <=> Surplus(cadence_history, CADENCE_THRESHOLD) < 0
          /\ Surplus(cadence_history, CADENCE_THRESHOLD) = 0 => ~blocks
          /\ cadence_history = <<70, 70, 70, 70, 50>> => ~blocks
          /\ cadence_history = <<50, 50, 50, 50, 50>> => blocks

\* a full window whose mean equals the threshold, after samples above and below it
C7_Witness ==
    /\ cadence_history = <<70, 50, 60, 50, 70>>
    /\ ~should_block_youtube(cadence_history, CADENCE_THRESHOLD, ROLLING_AVERAGE_WINDOW)

\* C8: the window never holds more than ROLLING_AVERAGE_WINDOW samples, and
\* after any number of pushes since the last clear it holds the last
\* ROLLING_AVERAGE_WINDOW of them (all of them while they are fewer), in push order.
C8_WindowKeepsLastSamples ==
    /\ Len(cadence_history) <= ROLLING_AVERAGE_WINDOW
    /\ cadence_history = LastN(pushed, ROLLING_AVERAGE_WINDOW)

\* two samples more than the window holds were pushed: the two oldest are gone
C8_Witness ==
    /\ pushed = <<0, 50, 60, 70, 50, 60, 70>>
    /\ cadence_history = <<60, 70, 50, 60, 70>>

\* C9: for two consecutive well-formed crank frames the corrected differences
\* are (c2 - c1) mod 65536 and (t2 - t1) mod 65536, both within 0..65535;
\* counters 65534 then 2 give rev_diff = 4.
C9_DifferencesAreModulo16Bit ==
    decoded.computed =>
        /\ decoded.rev_diff = (decoded.c - decoded.prev_c) % 65536
        /\ decoded.time_diff = (decoded.t - decoded.prev_t) % 65536
        /\ decoded.rev_diff \in 0..65535
        /\ decoded.time_diff \in 0..65535
        /\ (decoded.prev_c = 65534 /\ decoded.c = 2) => decoded.rev_diff = 4

\* the counter rolled over from 65534 to 2 while the event time rolled over too
C9_Witness ==
    /\ decoded.computed
    /\ decoded.prev_c = 65534 /\ decoded.c = 2
    /\ decoded.prev_t = 65530 /\ decoded.t = 0
    /\ decoded.rev_diff = 4 /\ decoded.time_diff = 6

\* C10 as stated: two consecutive well-formed crank frames with equal
\* revolution counters never make the handler call the callback with 0.
C10_NoZeroSampleForEqualCounters ==
    (decoded.computed /\ decoded.c = decoded.prev_c) =>
        ~(decoded.emit /\ decoded.sample = 0)

\* C10 amended: two consecutive well-formed crank frames with equal revolution
\* counters make the handler emit no sample when their event times are equal
\* too, and the sample 0 when their event times differ.
C10_EqualCountersEmitZeroOrNothing ==
    (decoded.computed /\ decoded.c = decoded.prev_c) =>
        /\ decoded.rev_diff = 0
        /\ decoded.emit <=> decoded.t # decoded.prev_t
        /\ decoded.emit => (decoded.sample = 0 /\ current_cadence = 0
                              /\ cadence_history[Len(cadence_history)] = 0)

\* equal counters, event time rolled over: the sample 0 reached the window
C10_Witness ==
    /\ decoded.computed
    /\ decoded.c = 2 /\ decoded.prev_c = 2
    /\ decoded.prev_t = 65530 /\ decoded.t = 10
    /\ decoded.emit /\ decoded.sample = 0
    /\ cadence_history # <<>>

\* the step is the disconnect branch of a monitor_loop iteration
LostStep == AtLoopTop /\ ~connected /\ pc' = "connecting"

\* C2: an iteration that finds the sensor not connected while youtube_blocked
\* is False calls enable_rule, however recent last_state_change is, and has
\* youtube_blocked True before the reconnection attempt when the call
\* succeeded; whatever the call answered, the window is emptied and
\* current_cadence is 0.
C2_DisconnectForcesBlock ==
    [][ LostStep =>
          /\ cadence_history' = <<>>
          /\ current_cadence' = 0
          /\ youtube_blocked = "False" =>
                /\ last_step'.gate = "enable"
                /\ last_step'.ok => youtube_blocked' = "True"
      ]_vars

\* the branch ran inside the grace period with samples in the window: the
\* gate was called, answered success, and the reconnection is about to start
C2_Witness ==
    /\ pc = "connecting"
    /\ last_step.op = "lost" /\ last_step.before = "False" /\ last_step.in_grace
    /\ last_step.gate = "enable" /\ last_step.ok
    /\ youtube_blocked = "True"
    /\ cadence_history = <<>> /\ current_cadence = 0
    /\ last_crank_revolutions # NoneInt

\* C3: a gate call of update_youtube_block or of the disconnect branch that
\* returns failure leaves youtube_blocked and last_state_change as they were;
\* the two change only in a step whose gate call returned success.
C3_FailedGateCallKeepsState ==
    [][ last_step'.op \in {"update", "lost"} =>
          /\ (last_step'.gate # "none" /\ ~last_step'.ok) =>
                UNCHANGED <<youtube_blocked, last_state_change>>
          /\ (youtube_blocked' # youtube_blocked \/ last_state_change' # last_state_change) =>
                (last_step'.gate # "none" /\ last_step'.ok)
      ]_vars

\* disable_rule failed outside the grace period: still blocked, timer untouched
C3_Witness ==
    /\ last_step.op = "update" /\ last_step.gate = "disable" /\ ~last_step.ok
    /\ ~last_step.in_grace
    /\ youtube_blocked = "True"
    /\ last_state_change < now

\* C4: after a state change applied at time T, a call of update_youtube_block
\* before T + GRACE_PERIOD_SECONDS whose desired state differs from
\* youtube_blocked makes no gate call and leaves youtube_blocked and
\* last_state_change alone.
C4_NoChangeInsideGracePeriod ==
    [][ ( /\ last_step'.op = "update"
          /\ last_step'.desired # youtube_blocked
          /\ now < last_state_change + GRACE_PERIOD_SECONDS ) =>
          /\ last_step'.gate = "none"
          /\ UNCHANGED <<youtube_blocked, last_state_change>>
      ]_vars

\* update_youtube_block unblocked at last_state_change; less than the grace
\* period later the average has fallen and the block is wanted, but not made
C4_Witness ==
    /\ last_step.op = "update" /\ last_step.in_grace
    /\ last_step.before = "False" /\ last_step.desired = "True"
    /\ last_step.gate = "none"
    /\ youtube_blocked = "False"
    /\ last_state_change >= StartTime
    /\ Len(cadence_history) = ROLLING_AVERAGE_WINDOW

\* C5 as stated: when, from some point on, the loop started by main() runs
\* with the sensor reported connected and no new sample reaches the window
\* (the rider has stopped), youtube_blocked does not stay False: it
\* eventually becomes True.
C5_StoppedRiderGetsBlocked ==
    <>[](main_path /\ running /\ connected /\ ~pedalling) => <>[](youtube_blocked = "True")

\* C6 as stated: when the link goes down while the loop started by main()
\* runs with the sensor connected, is_connected() comes to report False
\* (unless the loop is shut down first), so that an iteration enters the
\* disconnect branch.
C6_LinkLossIsDetected ==
    (main_path /\ running /\ connected /\ ~link_up) ~> (~connected \/ ~running)

----------------------------------------------------------------------------
(* Decoder claims, checked under SpecDecoder *)

\* C11 as stated: whenever the handler computes a sample from two consecutive
\* well-formed frames whose corrected time_diff is positive, the sample it
\* emits is exactly floor(rev_diff * 61440 / time_diff), a non-negative
\* integer.
C11_SampleIsExactQuotient ==
    (decoded.computed /\ decoded.time_diff > 0) =>
        /\ decoded.emit
        /\ decoded.sample = ExactRpm(decoded.rev_diff, decoded.time_diff)
        /\ decoded.sample >= 0

\* the frames the claim lists as dropped: empty, crank bit (0x02) clear, or
\* crank bit set with fewer than 5 bytes
DroppedFrame(data) ==
    IF Len(data) = 0 THEN TRUE
    ELSE IF (data[1] \div 2) % 2 = 0 THEN TRUE
    ELSE Len(data) < 5

\* C12: a call of the handler on a dropped frame (empty, crank bit clear, or
\* crank bit set but shorter than 5 bytes) leaves last_crank_revolutions,
\* last_crank_event_time and cadence as they were, calls no callback, and so
\* leaves the window and current_cadence as they were.
C12_DroppedFrameChangesNothing ==
    [][ DroppedFrame(decoded'.frame) =>
          /\ ~decoded'.emit /\ ~decoded'.parsed
          /\ UNCHANGED <<last_crank_revolutions, last_crank_event_time, cadence>>
          /\ UNCHANGED <<cadence_history, current_cadence, pushed>>
      ]_vars

\* a 3-byte frame with the crank bit set was dropped after the decoder had
\* stored a pair and emitted a sample: all of it is still there
C12_Witness ==
    /\ decoded.frame = <<2, 0, 0>>
    /\ ~decoded.emit
    /\ last_crank_revolutions = 2 /\ last_crank_event_time = 10
    /\ cadence = 12288
    /\ cadence_history = <<12288>> /\ pushed = <<12288>>

\* C13: after a call on a frame with the crank bit set and at least 5 bytes,
\* the stored pair is the frame's (counter, event time), whether a sample was
\* emitted or not; and a sample was emitted exactly when a stored pair existed
\* before the call and the corrected time_diff is positive.
C13_StoredPairFollowsFrame ==
    (Len(decoded.frame) >= 5 /\ ~DroppedFrame(decoded.frame)) =>
        /\ decoded.parsed
        /\ Frame(decoded.frame[1], last_crank_revolutions, last_crank_event_time)
             = decoded.frame
        /\ decoded.emit <=>
              ( /\ decoded.prev_c # NoneInt /\ decoded.prev_t # NoneInt
                /\ (last_crank_event_time - decoded.prev_t) % 65536 > 0 )

\* a frame repeating the stored event time with a new counter: nothing is
\* emitted, and the stored pair moved to the frame's
C13_Witness ==
    /\ decoded.parsed /\ ~decoded.emit
    /\ decoded.prev_c = 0 /\ decoded.prev_t = 10
    /\ decoded.frame = Frame(2, 2, 10)
    /\ last_crank_revolutions = 2 /\ last_crank_event_time = 10

----------------------------------------------------------------------------
(* Reconnection and error handling claims, checked under Spec *)

\* C14 as stated: when the loop has found the sensor connection lost, the
\* decoder's counter state is unset: from the disconnect branch until the
\* sensor is subscribed again last_crank_revolutions and
\* last_crank_event_time are None, so that the first frame after the
\* reconnection has no stored pair to be compared with.
C14_CounterStateClearedOnLoss ==
    pc \in {"connecting", "subscribing"} =>
        /\ last_crank_revolutions = NoneInt
        /\ last_crank_event_time = NoneInt

\* C15 as stated: once monitor_loop runs, the while-loop ends only on the
\* shutdown signal: no failing gate call, no failed or exception-raising
\* sensor scan, connect or subscribe during reconnection, and no malformed
\* frame makes running go from True to False.
C15_LoopEndsOnlyOnShutdown ==
    [][ (running /\ ~running') => last_step'.op = "shutdown" ]_vars

\* C17: when Config.validate() fails, initialize() returns False without
\* having made a gate or sensor call (youtube_blocked still None, the sensor
\* not connected, the remote rule untouched); main() then returns 1, and
\* never enters monitor_loop.
C17_MissingCredentialStopsStartup ==
    [][ /\ ( /\ pc = "new" /\ last_step'.op = "initialize"
              /\ last_step'.failed_at = "validate" ) =>
                /\ pc' = "init_failed"
                /\ last_step'.calls = <<>>
                /\ youtube_blocked' = "None"
                /\ ~connected' /\ ~notifying' /\ ~running'
                /\ UNCHANGED rule_enabled
        /\ (pc = "init_failed" /\ main_path') =>
                (pc' \in {"init_failed", "exit_1"} /\ ~running')
        /\ pc = "exit_1" => (pc' = "exit_1" /\ ~running')
      ]_vars

\* main() has returned 1 right after an initialize() whose validate step
\* failed: no call was made, nothing was connected, the loop never ran
C17_Witness ==
    /\ pc = "exit_1" /\ main_path
    /\ last_step.op = "exit" /\ last_step.failed_at = "validate"
    /\ last_step.calls = <<>>
    /\ youtube_blocked = "None"
    /\ ~connected /\ ~running

\* C18: in the loop iteration in which a sensor connection is followed by
\* the decision update (the first iteration after initialize connected, or
\* the iteration in which the loop reconnected), whenever youtube_blocked is
\* not True when the sensor has been connected, enable_rule is called in that
\* iteration, by its disconnect branch or by its update, whatever the window
\* holds and also when the grace period has not passed.
C18_ConnectionForcesBlock ==
    [][ ( /\ (pc = "subscribing" \/ (pc = "enter" /\ connected))
          /\ pc' = "top"
          /\ youtube_blocked # "True" ) =>
            (last_step'.forced \/ last_step'.gate = "enable")
      ]_vars

\* the loop reconnected less than the grace period after it had unblocked:
\* the update made no call, the disconnect branch of the iteration had called
\* enable_rule (in vain)
C18_Witness ==
    /\ last_step.op = "update" /\ last_step.forced
    /\ last_step.before = "False" /\ last_step.in_grace
    /\ last_step.gate = "none"
    /\ youtube_blocked = "False"
    /\ connected /\ cadence_history = <<>>

\* C19 as stated: when start_notifications() fails after the loop has
\* reconnected, the loop goes on treating the sensor as disconnected:
\* is_connected() is False at the next iteration, which retries.
C19_FailedSubscriptionStaysDisconnected ==
    [][ (pc = "subscribing" /\ pc' = "top" /\ ~notifying') => ~connected' ]_vars

\* the gate call that moves youtube_blocked to desired
GateFor(desired) == IF desired = "True" THEN "enable" ELSE "disable"

\* a decision update is due: the loop is about to start an iteration with the
\* sensor connected, should_block_youtube differs from youtube_blocked and
\* the grace period has passed
UpdateDue ==
    /\ AtLoopTop /\ connected
    /\ PyBool(should_block_youtube(cadence_history, CADENCE_THRESHOLD,
                                   ROLLING_AVERAGE_WINDOW)) # youtube_blocked
    /\ can_change_state(now, last_state_change)

\* C16: every update that finds desired different from youtube_blocked
\* outside the grace period calls the gate for that transition, and commits
\* it when the call succeeds; an update that directly follows a failed gate
\* call with the same desired state makes the same call again; and, the gate
\* succeeding at some attempt when attempted again and again, a due update
\* does not stay due forever: youtube_blocked comes to equal desired.
C16_FailedGateCallIsRetried ==
    /\ [][ /\ ( /\ last_step'.op = "update"
                  /\ last_step'.desired # youtube_blocked
                  /\ ~last_step'.in_grace ) =>
                    /\ last_step'.gate = GateFor(last_step'.desired)
                    /\ (last_step'.ok => youtube_blocked' = last_step'.desired)
           /\ ( /\ last_step'.op = "update" /\ last_step'.retry
                 /\ last_step'.desired = last_step.desired ) =>
                    last_step'.gate = last_step.gate
         ]_vars
    /\ []<>(~UpdateDue)

\* an update whose disable_rule call succeeded right after an update whose
\* disable_rule call had failed
C16_Witness ==
    /\ last_step.op = "update" /\ last_step.retry
    /\ last_step.before = "True" /\ last_step.desired = "False"
    /\ last_step.gate = "disable" /\ last_step.ok
    /\ youtube_blocked = "False"

\* C20: an iteration whose sensor.connect() returns False ends there: the
\* loop is still running and disconnected, the window is empty, no decision
\* update ran; the next iteration enters the disconnect branch and attempts
\* again; while disconnected the window stays empty; and when the sensor is
\* reachable from some point on, a disconnected loop comes to be connected
\* (or is shut down).
C20_FailedReconnectIsRetried ==
    /\ [][ /\ last_step'.op = "connect_failed" =>
                /\ running' /\ pc' = "top" /\ ~connected'
                /\ cadence_history' = <<>>
                /\ UNCHANGED decision_vars
           /\ (running /\ pc = "top" /\ ~connected /\ pc' \notin {"top", "stopped"}) =>
                (pc' = "connecting" /\ last_step'.op = "lost")
         ]_vars
    /\ []((running /\ ~connected) => cadence_history = <<>> \/ pc = "enter")
    /\ (<>[]link_up => ((running /\ ~connected) ~> (connected \/ ~running)))

\* the disconnect branch ran again right after a failed sensor.connect()
C20_Witness ==
    /\ running /\ pc = "connecting" /\ ~connected
    /\ last_step.op = "lost" /\ last_step.retry
    /\ cadence_history = <<>>

----------------------------------------------------------------------------
(* Decision state claims, checked under Spec *)

\* C21 as stated: once the loop is running, youtube_blocked changes only in
\* update_youtube_block: every step that changes it is a decision update.
C21_OnlyUpdateAssignsBlocked ==
    [][ (running /\ youtube_blocked' # youtube_blocked) => last_step'.op = "update" ]_vars

\* C22: in every state of a run of main() in which monitor_loop has started,
\* youtube_blocked is True or False (None only before initialize read the
\* rule's status); and while the loop runs it changes value only by a gate
\* call that succeeded, to the state that call asked for.
C22_UnknownOnlyBeforeFirstDecision ==
    /\ []((main_path /\ pc \notin {"new", "init_failed", "exit_1"}) =>
            youtube_blocked \in {"True", "False"})
    /\ [][ (running /\ youtube_blocked' # youtube_blocked) =>
              /\ last_step'.gate # "none" /\ last_step'.ok
              /\ youtube_blocked' = (IF last_step'.gate = "enable" THEN "True" ELSE "False")
              /\ youtube_blocked' # last_step'.before
       ]_vars

\* the loop started by main() has unblocked: disable_rule succeeded on a
\* blocked state read from the rule by initialize
C22_Witness ==
    /\ main_path /\ running
    /\ last_step.op = "update" /\ last_step.before = "True"
    /\ last_step.gate = "disable" /\ last_step.ok
    /\ youtube_blocked = "False"
    /\ last_state_change = now

\* C23: an update makes at most one gate call; it calls enable_rule only when
\* should_block_youtube says blocked and youtube_blocked is not True,
\* disable_rule only when it says unblocked and youtube_blocked is not False,
\* and makes no call when the desired state equals youtube_blocked.
C23_GateCalledOnlyForAChange ==
    [][ last_step'.op = "update" =>
          /\ Len(last_step'.calls) <= 1
          /\ last_step'.calls = (IF last_step'.gate = "none" THEN <<>>
                                  ELSE <<last_step'.gate>>)
          /\ last_step'.desired =
                PyBool(should_block_youtube(cadence_history, CADENCE_THRESHOLD,
                                            ROLLING_AVERAGE_WINDOW))
          /\ last_step'.gate = "enable" =>
                (last_step'.desired = "True" /\ youtube_blocked # "True")
          /\ last_step'.gate = "disable" =>
                (last_step'.desired = "False" /\ youtube_blocked # "False")
          /\ last_step'.desired = youtube_blocked => last_step'.gate = "none"
      ]_vars

\* an update on a full window of low samples called enable_rule, once, on an
\* unblocked state
C23_Witness ==
    /\ last_step.op = "update"
    /\ last_step.before = "False" /\ last_step.desired = "True"
    /\ last_step.calls = <<"enable">>
    /\ Len(cadence_history) = ROLLING_AVERAGE_WINDOW

----------------------------------------------------------------------------
(* Serialization: update_youtube_block and _notification_handler in two      *)
(* steps each. Both are synchronous code: the event loop runs a notification *)
(* callback only while monitor_loop is suspended at an await, and runs       *)
(* nothing else until the callback has returned.                             *)

InitSerial == Init /\ link_up /\ pedalling

SerialFrames == LoopFrames \ {<<>>}

\* update_youtube_block up to its gate call: should_block_youtube() and
\* can_change_state() read the window, youtube_blocked and last_state_change
UpdateRead ==
    LET r == update_youtube_block(cadence_history, youtube_blocked, last_state_change,
                                  rule_enabled, now, TRUE)
    IN  /\ AtLoopTop /\ connected
        /\ decoded = NotDecoded
        /\ pc' = "deciding"
        /\ last_step' = [Idle EXCEPT !.op = "deciding", !.before = r.obs.before,
                                     !.desired = r.obs.desired,
                                     !.in_grace = r.obs.in_grace]
        /\ UNCHANGED <<window_vars, decoder_vars, decision_vars, env_vars, running, connected,
                       notifying, now, main_path, forced, obs_vars>>

\* the rest of update_youtube_block: the gate call for the should_block read
\* before, and the assignment of youtube_blocked and last_state_change
UpdateCommit(ok) ==
    LET should_block == (last_step.desired = "True")
        change == last_step.desired # last_step.before /\ ~last_step.in_grace
    IN  /\ running /\ pc = "deciding"
        /\ youtube_blocked' = IF change /\ ok THEN PyBool(should_block) ELSE youtube_blocked
        /\ last_state_change' = IF change /\ ok THEN now ELSE last_state_change
        /\ rule_enabled' = IF change
                            THEN update_rule(rule_enabled, gate_call(should_block) = "enable", ok)
                            ELSE rule_enabled
        /\ last_step' = IF change
                         THEN [last_step EXCEPT !.op = "update",
                                                !.gate = gate_call(should_block),
                                                !.calls = <<gate_call(should_block)>>,
                                                !.ok = ok]
                         ELSE [last_step EXCEPT !.op = "update"]
        /\ pc' = "top"
        /\ UNCHANGED <<window_vars, decoder_vars, env_vars, running, connected, notifying,
                       now, main_path, forced, obs_vars>>

\* _notification_handler is called on data and computes its result
DecodeBegin(data) ==
    /\ notifying /\ link_up
    /\ pc \in Suspended
    /\ decoded = NotDecoded
    /\ decoded' = Observed(data)
    /\ last_step' = Idle
    /\ UNCHANGED <<window_vars, decoder_vars, decision_vars, env_vars, running, pc, connected,
                   notifying, now, main_path, forced, pushed>>

\* _notification_handler stores the frame's pair and the cadence, calls the
\* callback with the sample, and returns
DecodeEnd ==
    LET u == cadence_update(cadence_history, decoded.sample)
    IN  /\ decoded # NotDecoded
        /\ last_crank_revolutions' = IF decoded.parsed THEN decoded.c ELSE last_crank_revolutions
        /\ last_crank_event_time' = IF decoded.parsed THEN decoded.t ELSE last_crank_event_time
        /\ cadence' = IF decoded.emit THEN decoded.sample ELSE cadence
        /\ current_cadence' = IF decoded.emit THEN u[1] ELSE current_cadence
        /\ cadence_history' = IF decoded.emit THEN u[2] ELSE cadence_history
        /\ decoded' = NotDecoded
        /\ UNCHANGED <<decision_vars, env_vars, running, pc, connected, notifying, now,
                       main_path, forced, last_step, pushed>>

\* the clock, read between two pieces of synchronous code
TickSerial == pc # "deciding" /\ decoded = NotDecoded /\ Tick

NextSerial ==
    \/ Initialize("none")
    \/ StartLoop
    \/ UpdateRead
    \/ \E ok \in BOOLEAN : UpdateCommit(ok)
    \/ \E data \in SerialFrames : DecodeBegin(data)
    \/ DecodeEnd
    \/ TickSerial

SpecSerial == InitSerial /\ [][NextSerial]_vars

\* C24: between the update's reading of the window and its assignment of
\* youtube_blocked and last_state_change no handler call begins or ends, so
\* the window and the decoder state stay as read and the decision committed
\* is should_block_youtube of the window as it is at the commit; and while a
\* frame is being decoded no other frame is taken up and no update runs.
C24_DeliveryAndEvaluationAreSerialized ==
    [][ /\ pc = "deciding" =>
              /\ UNCHANGED <<window_vars, decoder_vars, decoded>>
              /\ pc' = "top"
              /\ last_step'.desired =
                    PyBool(should_block_youtube(cadence_history', CADENCE_THRESHOLD,
                                                ROLLING_AVERAGE_WINDOW))
              /\ youtube_blocked' # youtube_blocked =>
                    youtube_blocked' = last_step'.desired
        /\ decoded # NotDecoded =>
              /\ decoded' = NotDecoded
              /\ UNCHANGED <<decision_vars, pc, last_step>>
      ]_vars

\* an update committed the unblocking on a full window, after a frame had
\* been decoded and before the next one is
C24_Witness ==
    /\ pc = "top" /\ decoded = NotDecoded
    /\ last_step.op = "update" /\ last_step.gate = "disable" /\ last_step.ok
    /\ youtube_blocked = "False"
    /\ Len(cadence_history) = ROLLING_AVERAGE_WINDOW
    /\ last_crank_revolutions # NoneInt

\* C25: while the loop runs, every step that makes youtube_blocked False is
\* an update whose disable_rule call succeeded, on a window that holds
\* exactly ROLLING_AVERAGE_WINDOW samples with a mean of at least
\* CADENCE_THRESHOLD.
C25_UnblockOnlyOnFullWindowAboveThreshold ==
    [][ (running /\ youtube_blocked # "False" /\ youtube_blocked' = "False") =>
          /\ last_step'.op = "update"
          /\ last_step'.gate = "disable" /\ last_step'.ok
          /\ UNCHANGED cadence_history
          /\ Len(cadence_history) = ROLLING_AVERAGE_WINDOW
          /\ sum(cadence_history) >= ROLLING_AVERAGE_WINDOW * CADENCE_THRESHOLD
      ]_vars

\* an update unblocked on a full window whose oldest sample is 0 and whose
\* mean is above the threshold
C25_Witness ==
    /\ running
    /\ last_step.op = "update" /\ last_step.before = "True"
    /\ last_step.gate = "disable" /\ last_step.ok
    /\ youtube_blocked = "False"
    /\ Len(cadence_history) = ROLLING_AVERAGE_WINDOW
    /\ cadence_history[1] = 0
    /\ sum(cadence_history) >= ROLLING_AVERAGE_WINDOW * CADENCE_THRESHOLD

\* C26: the remote rule being changed by this program only, and not by a gate
\* call that returns failure, youtube_blocked equals the rule's enabled state
\* in every state of a run of main() after initialize() succeeded, and
\* whenever it is not None.
C26_LocalStateEqualsRemoteRule ==
    /\ (main_path /\ pc \notin {"new", "init_failed", "exit_1"}) =>
            youtube_blocked = PyBool(rule_enabled)
    /\ youtube_blocked # "None" => youtube_blocked = PyBool(rule_enabled)

\* in the loop started by main(), enable_rule failed: youtube_blocked is
\* still False and the rule still disabled
C26_Witness ==
    /\ main_path /\ running
    /\ last_step.op = "update" /\ last_step.gate = "enable" /\ ~last_step.ok
    /\ youtube_blocked = "False" /\ ~rule_enabled

\* C27: while the loop runs, every change of youtube_blocked, the forced
\* block of the disconnect branch included, sets last_state_change to the
\* time of the change; and youtube_blocked goes from True to False only
\* GRACE_PERIOD_SECONDS or more after last_state_change.
C27_ForcedBlockRestartsDwellTimer ==
    [][ /\ (running /\ youtube_blocked' # youtube_blocked) =>
              (last_state_change' = now /\ now' = now)
        /\ (last_step'.op = "lost" /\ last_step'.gate = "enable" /\ last_step'.ok) =>
              (youtube_blocked' = "True" /\ last_state_change' = now)
        /\ (youtube_blocked = "True" /\ youtube_blocked' = "False") =>
              now - last_state_change >= GRACE_PERIOD_SECONDS
      ]_vars

\* less than the grace period after youtube_blocked became True the window
\* is full of samples above the threshold: the update does not unblock
C27_Witness ==
    /\ last_step.op = "update" /\ last_step.in_grace
    /\ last_step.before = "True" /\ last_step.desired = "False"
    /\ last_step.gate = "none"
    /\ youtube_blocked = "True"
    /\ last_state_change > 0
    /\ Len(cadence_history) = ROLLING_AVERAGE_WINDOW

\* C28: in an iteration that found the sensor not connected (its disconnect
\* branch, and the update that follows a successful reconnection) the only
\* gate call made is enable_rule.
C28_NoDisableWhileDisconnected ==
    [][ ( \/ AtLoopTop /\ ~connected
          \/ pc \in {"connecting", "subscribing"} ) =>
            last_step'.gate \in {"none", "enable"}
      ]_vars

\* the update after a reconnection called enable_rule again, the call of the
\* iteration's disconnect branch having failed
C28_Witness ==
    /\ last_step.op = "update" /\ last_step.forced
    /\ last_step.gate = "enable"
    /\ ~last_step.in_grace
    /\ cadence_history = <<>>

====
